---- MODULE Spec2Model ----
(***************************************************************************)
(* State-machine model of the synchronisation primitives of the            *)
(* repository: thread::sync::Mutex (futex based), QueueSpinLock (MCS),     *)
(* TicketLock, TASSpinLock and the SPSC RingBuffer / FastRingBuffer.       *)
(* Every atomic load, store, exchange and compare-exchange of the source   *)
(* is one step of the thread that executes it; steps of different threads  *)
(* interleave arbitrarily.                                                 *)
(***************************************************************************)
EXTENDS Integers, Sequences, FiniteSets, TLC

\* ------------------------------------------------------------------ bounds
\* threads that use one lock
NumThreads == 3
\* acquisitions per thread of the Mutex, the TicketLock and the TASSpinLock
MaxRounds == 2
\* Guards per thread of the QueueSpinLock
MCSRounds == 1
\* largest ring buffer capacity (the smallest is 2)
MaxCapacity == 4
\* values the producer pushes
MaxItems == 6
\* calls made on the pair of a RingBuffer and a FastRingBuffer
MaxCalls == 8

Threads == 1..NumThreads
Null == 0

VARIABLES
  \* thread::sync::Mutex
  lock_,        \* the futex word
  mpc,          \* per thread: position inside lock() / unlock()
  mround,       \* per thread: completed lock()/unlock() pairs
  mwoken,       \* per thread: TRUE once a WakeAll has woken it in the current lock() call
  \* thread::sync::QueueSpinLock; a Guard is named by the thread that owns it
  tail_,        \* QueueSpinLock::tail_
  next_,        \* per Guard: Guard::next_
  is_owner_,    \* per Guard: Guard::is_owner_
  prev_tail,    \* per thread: the local prev_tail of Enqueue
  qpc,          \* per thread: position inside Guard(), the critical section, ~Guard()
  qround,       \* per thread: completed guarded increments
  counter,      \* the shared int the guarded section increments
  qreg,         \* per thread: the value of counter it loaded for ++counter
  qenq,         \* number of exchanges on tail_ so far
  qnum,         \* per Guard: its position in the order of the exchanges on tail_
  qgrants,      \* number of Guard constructors that have returned so far
  \* thread::sync::TicketLock
  next_free_ticket_,
  owner_ticket_,
  my_ticket,    \* per thread: this_thread_ticket of lock(), current_owner_ticket of try_lock()
  tpc,          \* per thread: position inside lock() / try_lock() / unlock()
  tround,       \* per thread: completed acquisitions
  tentered,     \* number of acquisitions (returns of lock(), successful try_lock()) so far
  ttried,       \* TRUE while the lock is held through a successful try_lock()
  \* thread::sync::TASSpinLock
  locked_,
  spc,          \* per thread: position inside lock() / try_lock() / unlock()
  sround,       \* per thread: completed acquisitions
  stry,         \* the last try_lock() call: what it found and what it returned
  sover,        \* acquisitions by calls that started after thread 1's pending lock() call
  \* common::containers::RingBuffer<int> / FastRingBuffer<int>
  fast,             \* TRUE: the object is a FastRingBuffer, FALSE: a RingBuffer
  capacity_,
  data_,            \* the std::vector: slot i of the source is data_[i + 1]
  readIdx_,
  writeIdx_,
  readIdxCached_,   \* FastRingBuffer only
  writeIdxCached_,  \* FastRingBuffer only
  ppc,              \* producer: position inside Push
  currentWriteIdx,  \* producer: the local of Push
  cpc,              \* consumer: position inside Pop
  readIdx,          \* consumer: the local of Pop
  val,              \* consumer: the local of Pop
  accepted,         \* number of Push calls that returned true; the k-th accepted value is k
  popped,           \* the values returned by Pop, in order
  pushRes,          \* the last return of Push and the number of unpopped values it found
  popRes,           \* the last return of Pop and the number of unpopped values it found
  cachedAt,         \* FastRingBuffer: how many pops (rd) / pushes (wr) were published when the
                    \* cached read / write index was last loaded
  \* a RingBuffer<int> and a FastRingBuffer<int> given the same calls by one thread
  ecap,             \* the capacity of both
  rb,               \* the RingBuffer: data_, readIdx_, writeIdx_
  frb,              \* the FastRingBuffer: data_, readIdx_, writeIdx_, readIdxCached_, writeIdxCached_
  eres,             \* what the last call returned on each
  ecalls            \* number of calls made so far

mutexVars == <<lock_, mpc, mround, mwoken>>

mcsVars == <<tail_, next_, is_owner_, prev_tail, qpc, qround, counter, qreg,
             qenq, qnum, qgrants>>

ticketVars == <<next_free_ticket_, owner_ticket_, my_ticket, tpc, tround, tentered,
                ttried>>

tasVars == <<locked_, spc, sround, stry, sover>>

ringVars == <<fast, capacity_, data_, readIdx_, writeIdx_, readIdxCached_,
              writeIdxCached_, ppc, currentWriteIdx, cpc, readIdx, val, accepted,
              popped, pushRes, popRes, cachedAt>>

pairVars == <<ecap, rb, frb, eres, ecalls>>

vars == <<mutexVars, mcsVars, ticketVars, tasVars, ringVars, pairVars>>

notMutexVars == <<mcsVars, ticketVars, tasVars, ringVars, pairVars>>

notMCSVars == <<mutexVars, ticketVars, tasVars, ringVars, pairVars>>

notTicketVars == <<mutexVars, mcsVars, tasVars, ringVars, pairVars>>

notTASVars == <<mutexVars, mcsVars, ticketVars, ringVars, pairVars>>

notRingVars == <<mutexVars, mcsVars, ticketVars, tasVars, pairVars>>

notPairVars == <<mutexVars, mcsVars, ticketVars, tasVars, ringVars>>

\* ============================================================ Futex Mutex
Unlocked == 0
LockedNoWaiters == 1
LockedHasWaiters == 2

\* std::atomic::compare_exchange_strong on a word whose value is cur
CompareExchange(cur, expected, desired) ==
  [ok |-> cur = expected, val |-> IF cur = expected THEN desired ELSE cur]

FastPathLockCAS(cur) == CompareExchange(cur, Unlocked, LockedNoWaiters)

AnnounceWaiterCAS(cur) == CompareExchange(cur, LockedNoWaiters, LockedHasWaiters)

\* faulty variant: the slow path expects the word it wrote itself
SlowPathAcquireCAS_WrongExpected(cur) ==
  CompareExchange(cur, LockedHasWaiters, LockedHasWaiters)

\* faulty variant: the slow path takes the lock without re-announcing waiters
SlowPathAcquireCAS_NoWaiters(cur) == CompareExchange(cur, Unlocked, LockedNoWaiters)

SlowPathAcquireCAS(cur) == CompareExchange(cur, Unlocked, LockedHasWaiters)

\* faulty variant: unlock() always takes the fast path
UnlockFastPathCAS_Always(cur) == [ok |-> TRUE, val |-> Unlocked]

UnlockFastPathCAS(cur) == CompareExchange(cur, LockedNoWaiters, Unlocked)

\* faulty variant: the wait blocks without comparing the word
FutexWaitBlocks_Unconditional(cur, old) == TRUE

\* FUTEX_WAIT: the kernel blocks the caller only if the word still holds old
FutexWaitBlocks(cur, old) == cur = old

\* faulty variant: FUTEX_WAKE with a count of 1 wakes one blocked thread
WakeAllSet_One(p) ==
  IF \E u \in Threads : p[u] = "sleeping"
    THEN {CHOOSE u \in Threads : p[u] = "sleeping"}
    ELSE {}

\* FUTEX_WAKE with INT32_MAX: every thread blocked on the word
WakeAllSet(p) == {u \in Threads : p[u] = "sleeping"}

InitMutex ==
  /\ lock_ = Unlocked
  /\ mpc = [t \in Threads |-> "idle"]
  /\ mround = [t \in Threads |-> 0]
  /\ mwoken = [t \in Threads |-> FALSE]

\* lock(): FastPathLock
MFastPathLock(t) ==
  /\ mpc[t] = "idle"
  /\ mround[t] < MaxRounds
  /\ LET r == FastPathLockCAS(lock_) IN
       /\ lock_' = r.val
       /\ mpc' = [mpc EXCEPT ![t] = IF r.ok THEN "cs" ELSE "slow_cas"]
  /\ UNCHANGED <<mround, mwoken, notMutexVars>>

\* SlowPathLock: announce a waiter (the result of the CAS is ignored)
MAnnounceWaiter(t) ==
  /\ mpc[t] = "slow_cas"
  /\ lock_' = AnnounceWaiterCAS(lock_).val
  /\ mpc' = [mpc EXCEPT ![t] = "wait"]
  /\ UNCHANGED <<mround, mwoken, notMutexVars>>

\* SlowPathLock: os::futex::Wait(&lock_, LockedHasWaiters)
MFutexWait(t) ==
  /\ mpc[t] = "wait"
  /\ mpc' = [mpc EXCEPT ![t] =
               IF FutexWaitBlocks(lock_, LockedHasWaiters) THEN "sleeping" ELSE "retry"]
  /\ UNCHANGED <<lock_, mround, mwoken, notMutexVars>>

\* the kernel wait may also return without a wake (a signal: EINTR)
MSpuriousWake(t) ==
  /\ mpc[t] = "sleeping"
  /\ mpc' = [mpc EXCEPT ![t] = "retry"]
  /\ UNCHANGED <<lock_, mround, mwoken, notMutexVars>>

\* SlowPathLock: the CAS after the wait; lock() loops while it fails
MSlowPathAcquire(t) ==
  /\ mpc[t] = "retry"
  /\ LET r == SlowPathAcquireCAS(lock_) IN
       /\ lock_' = r.val
       /\ mpc' = [mpc EXCEPT ![t] = IF r.ok THEN "cs" ELSE "slow_cas"]
  /\ UNCHANGED <<mround, mwoken, notMutexVars>>

\* unlock(): UnlockFastPath
MUnlockFastPath(t) ==
  /\ mpc[t] = "cs"
  /\ LET r == UnlockFastPathCAS(lock_) IN
       /\ lock_' = r.val
       /\ mpc' = [mpc EXCEPT ![t] = IF r.ok THEN "idle" ELSE "u_store"]
       /\ mround' = [mround EXCEPT ![t] = IF r.ok THEN @ + 1 ELSE @]
  /\ mwoken' = [mwoken EXCEPT ![t] = FALSE]
  /\ UNCHANGED notMutexVars

\* unlock(): lock_.store(Unlocked)
MUnlockStore(t) ==
  /\ mpc[t] = "u_store"
  /\ lock_' = Unlocked
  /\ mpc' = [mpc EXCEPT ![t] = "u_wake"]
  /\ UNCHANGED <<mround, mwoken, notMutexVars>>

\* unlock(): os::futex::WakeAll(&lock_)
MWakeAll(t) ==
  /\ mpc[t] = "u_wake"
  /\ mpc' = [u \in Threads |->
               IF u = t THEN "idle"
               ELSE IF u \in WakeAllSet(mpc) THEN "retry" ELSE mpc[u]]
  /\ mwoken' = [u \in Threads |-> u \in WakeAllSet(mpc) \/ mwoken[u]]
  /\ mround' = [mround EXCEPT ![t] = @ + 1]
  /\ UNCHANGED <<lock_, notMutexVars>>

\* the steps of thread t's own program
MStep(t) ==
  \/ MFastPathLock(t)
  \/ MAnnounceWaiter(t)
  \/ MFutexWait(t)
  \/ MSlowPathAcquire(t)
  \/ MUnlockFastPath(t)
  \/ MUnlockStore(t)
  \/ MWakeAll(t)

NextMutex == \E t \in Threads : MStep(t) \/ MSpuriousWake(t)

\* every thread has one lock()/unlock() pair left to run
InitMutexOnce ==
  /\ lock_ = Unlocked
  /\ mpc = [t \in Threads |-> "idle"]
  /\ mround = [t \in Threads |-> MaxRounds - 1]
  /\ mwoken = [t \in Threads |-> FALSE]

\* ========================================================== QueueSpinLock
InitMCS ==
  /\ tail_ = Null
  /\ next_ = [t \in Threads |-> Null]
  /\ is_owner_ = [t \in Threads |-> FALSE]
  /\ prev_tail = [t \in Threads |-> Null]
  /\ qpc = [t \in Threads |-> "idle"]
  /\ qround = [t \in Threads |-> 0]
  /\ counter = 0
  /\ qreg = [t \in Threads |-> 0]
  /\ qenq = 0
  /\ qnum = [t \in Threads |-> 0]
  /\ qgrants = 0

\* faulty variant: Enqueue takes ownership whatever the exchange returned
EnqueueFoundEmpty_Always(prev) == TRUE

\* Enqueue: prev_tail == nullptr
EnqueueFoundEmpty(prev) == prev = Null

\* faulty variant: the releaser hands ownership to the tail of the queue
HandOffTarget_Tail(t) == tail_

\* Dequeue: waiter->next_.load()
HandOffTarget(t) == next_[t]

\* faulty variant: the second phase of Enqueue links the Guard to itself
LinkTarget_Self(t) == t

\* Enqueue phase 2: the Guard whose next_ is written is prev_tail
LinkTarget(t) == prev_tail[t]

\* Guard(host): next_{nullptr}, is_owner_{false}; Acquire -> Enqueue phase 1:
\* prev_tail = tail_.exchange(waiter)
QEnqueueExchange(t) ==
  /\ qpc[t] = "idle"
  /\ qround[t] < MCSRounds
  /\ next_' = [next_ EXCEPT ![t] = Null]
  /\ is_owner_' = [is_owner_ EXCEPT ![t] = FALSE]
  /\ prev_tail' = [prev_tail EXCEPT ![t] = tail_]
  /\ tail_' = t
  /\ qpc' = [qpc EXCEPT ![t] = IF EnqueueFoundEmpty(tail_) THEN "set_owner" ELSE "link"]
  /\ qenq' = qenq + 1
  /\ qnum' = [qnum EXCEPT ![t] = qenq + 1]
  /\ UNCHANGED <<qround, counter, qreg, qgrants, notMCSVars>>

\* Enqueue: waiter->is_owner_.store(true) when there was no previous tail
QSetOwner(t) ==
  /\ qpc[t] = "set_owner"
  /\ is_owner_' = [is_owner_ EXCEPT ![t] = TRUE]
  /\ qpc' = [qpc EXCEPT ![t] = "spin"]
  /\ UNCHANGED <<tail_, next_, prev_tail, qround, counter, qreg, qenq, qnum, qgrants,
                 notMCSVars>>

\* Enqueue phase 2: prev_tail->next_.store(waiter)
QLink(t) ==
  /\ qpc[t] = "link"
  /\ next_' = [next_ EXCEPT ![LinkTarget(t)] = t]
  /\ qpc' = [qpc EXCEPT ![t] = "spin"]
  /\ UNCHANGED <<tail_, is_owner_, prev_tail, qround, counter, qreg, qenq, qnum, qgrants,
                 notMCSVars>>

\* Acquire: the loop on waiter->is_owner_ ends and the Guard constructor returns
QAcquireSpin(t) ==
  /\ qpc[t] = "spin"
  /\ is_owner_[t]
  /\ qpc' = [qpc EXCEPT ![t] = "cs_load"]
  /\ qgrants' = qgrants + 1
  /\ UNCHANGED <<tail_, next_, is_owner_, prev_tail, qround, counter, qreg, qenq, qnum,
                 notMCSVars>>

\* the guarded ++counter on a plain int: the load
QCounterLoad(t) ==
  /\ qpc[t] = "cs_load"
  /\ qreg' = [qreg EXCEPT ![t] = counter]
  /\ qpc' = [qpc EXCEPT ![t] = "cs_store"]
  /\ UNCHANGED <<tail_, next_, is_owner_, prev_tail, qround, counter, qenq, qnum, qgrants,
                 notMCSVars>>

\* the guarded ++counter on a plain int: the store
QCounterStore(t) ==
  /\ qpc[t] = "cs_store"
  /\ counter' = qreg[t] + 1
  /\ qpc' = [qpc EXCEPT ![t] = "deq"]
  /\ UNCHANGED <<tail_, next_, is_owner_, prev_tail, qround, qreg, qenq, qnum, qgrants,
                 notMCSVars>>

\* faulty variant: Dequeue stores nullptr into tail_ whatever it holds
DequeueExchange_Blind(t) == [ok |-> TRUE, val |-> Null]

\* Dequeue: tail_.compare_exchange_strong(old_waiter, nullptr)
DequeueExchange(t) == CompareExchange(tail_, t, Null)

\* ~Guard() -> Release -> Dequeue: tail_.compare_exchange_strong(waiter, nullptr)
QDequeueCAS(t) ==
  /\ qpc[t] = "deq"
  /\ LET r == DequeueExchange(t) IN
       /\ tail_' = r.val
       /\ qpc' = [qpc EXCEPT ![t] = IF r.ok THEN "idle" ELSE "spin_next"]
       /\ qround' = [qround EXCEPT ![t] = IF r.ok THEN @ + 1 ELSE @]
  /\ UNCHANGED <<next_, is_owner_, prev_tail, counter, qreg, qenq, qnum, qgrants,
                 notMCSVars>>

\* SpinUntilNextWaiter: the loop ends once waiter->next_ is not null
QSpinUntilNextWaiter(t) ==
  /\ qpc[t] = "spin_next"
  /\ next_[t] # Null
  /\ qpc' = [qpc EXCEPT ![t] = "handoff"]
  /\ UNCHANGED <<tail_, next_, is_owner_, prev_tail, qround, counter, qreg, qenq, qnum,
                 qgrants, notMCSVars>>

\* Dequeue: waiter->next_.load()->is_owner_.store(true)
QHandOff(t) ==
  /\ qpc[t] = "handoff"
  /\ HandOffTarget(t) # Null
  /\ is_owner_' = [is_owner_ EXCEPT ![HandOffTarget(t)] = TRUE]
  /\ qpc' = [qpc EXCEPT ![t] = "idle"]
  /\ qround' = [qround EXCEPT ![t] = @ + 1]
  /\ UNCHANGED <<tail_, next_, prev_tail, counter, qreg, qenq, qnum, qgrants, notMCSVars>>

QStep(t) ==
  \/ QEnqueueExchange(t)
  \/ QSetOwner(t)
  \/ QLink(t)
  \/ QAcquireSpin(t)
  \/ QCounterLoad(t)
  \/ QCounterStore(t)
  \/ QDequeueCAS(t)
  \/ QSpinUntilNextWaiter(t)
  \/ QHandOff(t)

NextMCS == \E t \in Threads : QStep(t)


\* ============================================================= TicketLock
InitTicket ==
  /\ next_free_ticket_ = 0
  /\ owner_ticket_ = 0
  /\ my_ticket = [t \in Threads |-> 0]
  /\ tpc = [t \in Threads |-> "idle"]
  /\ tround = [t \in Threads |-> 0]
  /\ tentered = 0
  /\ ttried = FALSE

\* faulty variant: the spin loop of lock() runs only while the ticket is below the owner's
LockSpinDone_NotBelow(ticket, owner) == ticket >= owner

\* lock(): the loop condition this_thread_ticket != owner_ticket_.load() is false
LockSpinDone(ticket, owner) == ticket = owner

\* faulty variant: try_lock() draws a ticket whatever next_free_ticket_ holds
TryLockCAS_Blind(nextfree, cur) == [ok |-> TRUE, val |-> nextfree + 1]

\* try_lock(): next_free_ticket_.compare_exchange_strong(cur, cur + 1)
TryLockCAS(nextfree, cur) == CompareExchange(nextfree, cur, cur + 1)

\* faulty variant: unlock() releases to the next free ticket instead of the next waiter
UnlockOwnerTicket_NextFree(owner, nextfree) == nextfree

\* unlock(): owner_ticket_.fetch_add(1)
UnlockOwnerTicket(owner, nextfree) == owner + 1

\* lock(): this_thread_ticket = next_free_ticket_.fetch_add(1)
TLockDraw(t) ==
  /\ tpc[t] = "idle"
  /\ tround[t] < MaxRounds
  /\ my_ticket' = [my_ticket EXCEPT ![t] = next_free_ticket_]
  /\ next_free_ticket_' = next_free_ticket_ + 1
  /\ tpc' = [tpc EXCEPT ![t] = "spin"]
  /\ UNCHANGED <<owner_ticket_, tround, tentered, ttried, notTicketVars>>

\* lock(): the spin loop ends and lock() returns
TLockSpin(t) ==
  /\ tpc[t] = "spin"
  /\ LockSpinDone(my_ticket[t], owner_ticket_)
  /\ tpc' = [tpc EXCEPT ![t] = "cs"]
  /\ tentered' = tentered + 1
  /\ ttried' = FALSE
  /\ UNCHANGED <<next_free_ticket_, owner_ticket_, my_ticket, tround, notTicketVars>>

\* try_lock(): current_owner_ticket = owner_ticket_.load()
TTryLoad(t) ==
  /\ tpc[t] = "idle"
  /\ tround[t] < MaxRounds
  /\ my_ticket' = [my_ticket EXCEPT ![t] = owner_ticket_]
  /\ tpc' = [tpc EXCEPT ![t] = "try_cas"]
  /\ UNCHANGED <<next_free_ticket_, owner_ticket_, tround, tentered, ttried, notTicketVars>>

\* try_lock(): the compare-exchange on next_free_ticket_ and the return; the
\* local current_owner_ticket ends with a call that returns false
TTryCAS(t) ==
  /\ tpc[t] = "try_cas"
  /\ LET r == TryLockCAS(next_free_ticket_, my_ticket[t]) IN
       /\ next_free_ticket_' = r.val
       /\ tpc' = [tpc EXCEPT ![t] = IF r.ok THEN "cs" ELSE "idle"]
       /\ tentered' = IF r.ok THEN tentered + 1 ELSE tentered
       /\ ttried' = r.ok
       /\ my_ticket' = IF r.ok THEN my_ticket ELSE [my_ticket EXCEPT ![t] = 0]
  /\ UNCHANGED <<owner_ticket_, tround, notTicketVars>>

\* unlock(), called by the holder; the ticket the holder drew ends with it
TUnlock(t) ==
  /\ tpc[t] = "cs"
  /\ owner_ticket_' = UnlockOwnerTicket(owner_ticket_, next_free_ticket_)
  /\ tpc' = [tpc EXCEPT ![t] = "idle"]
  /\ tround' = [tround EXCEPT ![t] = @ + 1]
  /\ ttried' = FALSE
  /\ my_ticket' = [my_ticket EXCEPT ![t] = 0]
  /\ UNCHANGED <<next_free_ticket_, tentered, notTicketVars>>

TStep(t) ==
  \/ TLockDraw(t)
  \/ TLockSpin(t)
  \/ TTryLoad(t)
  \/ TTryCAS(t)
  \/ TUnlock(t)

NextTicket == \E t \in Threads : TStep(t)

\* ============================================================ TASSpinLock
InitTAS ==
  /\ locked_ = FALSE
  /\ spc = [t \in Threads |-> "idle"]
  /\ sround = [t \in Threads |-> 0]
  /\ stry = [called |-> FALSE, ok |-> FALSE, held |-> FALSE, busy |-> FALSE,
             after |-> FALSE]
  /\ sover = 0

\* faulty variant: an unconditional exchange whose old value is not looked at
TryCompareExchange_Blind(cur, spurious) == [ok |-> TRUE, val |-> TRUE]

\* faulty variant: the compare-exchange never succeeds
TryCompareExchange_Never(cur, spurious) == [ok |-> FALSE, val |-> cur]

\* TryCompareExchange: locked_.compare_exchange_weak(false, true); a weak
\* compare-exchange may fail although the flag holds the expected value
TryCompareExchange(cur, spurious) ==
  IF cur = FALSE /\ ~spurious
    THEN [ok |-> TRUE, val |-> TRUE]
    ELSE [ok |-> FALSE, val |-> cur]

\* the threads whose lock() call has started and not returned
SWaiting == {t \in Threads : spc[t] \in {"lock_cas", "spin_read"}}

\* sover after thread t's compare-exchange: when a call that has just started
\* acquires the lock while thread 1 waits in lock(), thread 1 was overtaken
\* (the threads run the same code: thread 1 stands for any waiting thread)
Overtake(t, acquired) ==
  IF ~acquired THEN sover
  ELSE IF t = 1 THEN 0
  ELSE IF 1 \in SWaiting /\ spc[t] = "idle" THEN sover + 1
  ELSE sover

\* lock(): one evaluation of the outer loop condition !TryCompareExchange()
SLockCAS(t) ==
  /\ \/ spc[t] = "idle" /\ sround[t] < MaxRounds
     \/ spc[t] = "lock_cas"
  /\ \E spurious \in BOOLEAN :
       LET r == TryCompareExchange(locked_, spurious) IN
         /\ locked_' = r.val
         /\ spc' = [spc EXCEPT ![t] = IF r.ok THEN "cs" ELSE "spin_read"]
         /\ sover' = Overtake(t, r.ok)
  /\ UNCHANGED <<sround, stry, notTASVars>>

\* lock(): the inner loop ends once locked_.load() is false
SSpinRead(t) ==
  /\ spc[t] = "spin_read"
  /\ ~locked_
  /\ spc' = [spc EXCEPT ![t] = "lock_cas"]
  /\ UNCHANGED <<locked_, sround, stry, sover, notTASVars>>

\* try_lock(): a single TryCompareExchange(); stry records the call: whether
\* another thread held the lock, whether another thread was inside lock(),
\* the value returned and the flag the call left behind
STryLock(t) ==
  /\ spc[t] = "idle"
  /\ sround[t] < MaxRounds
  /\ \E spurious \in BOOLEAN :
       LET r == TryCompareExchange(locked_, spurious) IN
         /\ locked_' = r.val
         /\ spc' = [spc EXCEPT ![t] = IF r.ok THEN "cs" ELSE "idle"]
         /\ stry' = [called |-> TRUE, ok |-> r.ok,
                     held |-> \E u \in Threads : spc[u] = "cs",
                     busy |-> \E u \in Threads : spc[u] \in {"lock_cas", "spin_read"},
                     after |-> r.val]
         /\ sover' = Overtake(t, r.ok)
  /\ UNCHANGED <<sround, notTASVars>>

\* unlock(), called by the holder
SUnlock(t) ==
  /\ spc[t] = "cs"
  /\ locked_' = FALSE
  /\ spc' = [spc EXCEPT ![t] = "idle"]
  /\ sround' = [sround EXCEPT ![t] = @ + 1]
  /\ UNCHANGED <<stry, sover, notTASVars>>

SStep(t) ==
  \/ SLockCAS(t)
  \/ SSpinRead(t)
  \/ STryLock(t)
  \/ SUnlock(t)

NextTAS == \E t \in Threads : SStep(t)


\* ============================================= RingBuffer / FastRingBuffer
\* what a read of a slot that was never constructed yields
Garbage == -1

\* the constructor: capacity_(capacity), data_.reserve(capacity), indices 0
InitRing(isFast, capacity) ==
  /\ fast = isFast
  /\ capacity_ = capacity
  /\ data_ = <<>>
  /\ readIdx_ = 0
  /\ writeIdx_ = 0
  /\ readIdxCached_ = 0
  /\ writeIdxCached_ = 0
  /\ ppc = "idle"
  /\ currentWriteIdx = 0
  /\ cpc = "idle"
  /\ readIdx = 0
  /\ val = 0
  /\ accepted = 0
  /\ popped = <<>>
  /\ pushRes = [called |-> FALSE, ok |-> FALSE, held |-> 0]
  /\ popRes = [called |-> FALSE, some |-> FALSE, held |-> 0]
  /\ cachedAt = [rd |-> 0, wr |-> 0]

\* (idx + 1) % capacity_
NextIdx(idx, capacity) == (idx + 1) % capacity

\* faulty variant: Push never finds the buffer full
IsFull_Never(nextWriteIdx, rd) == FALSE

\* Push: nextWriteIdx == readIdx_.load() / nextWriteIdx == readIdxCached_
IsFull(nextWriteIdx, rd) == nextWriteIdx = rd

\* faulty variant: Pop never finds the buffer empty
IsEmpty_Never(rd, wr) == FALSE

\* Pop: readIdx == writeIdx_.load() / readIdx == writeIdxCached_
IsEmpty(rd, wr) == rd = wr

\* faulty variant: Push always appends a new slot
NeedsConstruct_Always(idx, size) == TRUE

\* Push, lazy construction: currentWriteIdx >= data_.size()
NeedsConstruct(idx, size) == idx >= size

\* Push: data_.emplace_back(val) or data_[currentWriteIdx] = val
StoreSlot(data, idx, v) ==
  IF NeedsConstruct(idx, Len(data))
    THEN Append(data, v)
    ELSE [data EXCEPT ![idx + 1] = v]

\* Pop: data_[readIdx]
LoadSlot(data, idx) == IF idx < Len(data) THEN data[idx + 1] ELSE Garbage

\* values pushed and not yet popped
Unpopped == accepted - Len(popped)

PushReturn(ok) ==
  /\ ppc' = "idle"
  /\ currentWriteIdx' = 0
  /\ accepted' = IF ok THEN accepted + 1 ELSE accepted
  /\ pushRes' = [called |-> TRUE, ok |-> ok, held |-> Unpopped]

PopReturn(some) ==
  /\ cpc' = "idle"
  /\ readIdx' = 0
  /\ val' = 0
  /\ popped' = IF some THEN Append(popped, val) ELSE popped
  /\ popRes' = [called |-> TRUE, some |-> some, held |-> Unpopped]

\* Push(val): currentWriteIdx = writeIdx_.load(); the value pushed is the
\* next of an increasing sequence
PushLoadWriteIdx ==
  /\ ppc = "idle"
  /\ accepted < MaxItems
  /\ currentWriteIdx' = writeIdx_
  /\ ppc' = "check"
  /\ UNCHANGED <<fast, capacity_, cachedAt, data_, readIdx_, writeIdx_, readIdxCached_,
                 writeIdxCached_, cpc, readIdx, val, accepted, popped, pushRes, popRes,
                 notRingVars>>

\* RingBuffer::Push: if (nextWriteIdx == readIdx_.load()) return false
PushCheckFull ==
  /\ ppc = "check"
  /\ ~fast
  /\ IF IsFull(NextIdx(currentWriteIdx, capacity_), readIdx_)
       THEN PushReturn(FALSE)
       ELSE ppc' = "write" /\ UNCHANGED <<currentWriteIdx, accepted, pushRes>>
  /\ UNCHANGED <<fast, capacity_, cachedAt, data_, readIdx_, writeIdx_, readIdxCached_,
                 writeIdxCached_, cpc, readIdx, val, popped, popRes, notRingVars>>

\* FastRingBuffer::Push: if (nextWriteIdx == readIdxCached_)
PushCheckCached ==
  /\ ppc = "check"
  /\ fast
  /\ ppc' = IF IsFull(NextIdx(currentWriteIdx, capacity_), readIdxCached_)
              THEN "reload" ELSE "write"
  /\ UNCHANGED <<fast, capacity_, cachedAt, data_, readIdx_, writeIdx_, readIdxCached_,
                 writeIdxCached_, currentWriteIdx, cpc, readIdx, val, accepted, popped,
                 pushRes, popRes, notRingVars>>

\* FastRingBuffer::Push: readIdxCached_ = readIdx_.load(); return false if still full
PushReload ==
  /\ ppc = "reload"
  /\ readIdxCached_' = readIdx_
  /\ cachedAt' = [cachedAt EXCEPT !.rd = Len(popped)]
  /\ IF IsFull(NextIdx(currentWriteIdx, capacity_), readIdx_)
       THEN PushReturn(FALSE)
       ELSE ppc' = "write" /\ UNCHANGED <<currentWriteIdx, accepted, pushRes>>
  /\ UNCHANGED <<fast, capacity_, data_, readIdx_, writeIdx_, writeIdxCached_, cpc,
                 readIdx, val, popped, popRes, notRingVars>>

\* Push: the write of the slot (lazy construction)
PushWriteSlot ==
  /\ ppc = "write"
  /\ data_' = StoreSlot(data_, currentWriteIdx, accepted + 1)
  /\ ppc' = "publish"
  /\ UNCHANGED <<fast, capacity_, cachedAt, readIdx_, writeIdx_, readIdxCached_, writeIdxCached_,
                 currentWriteIdx, cpc, readIdx, val, accepted, popped, pushRes, popRes,
                 notRingVars>>

\* Push: writeIdx_.store(nextWriteIdx); return true
PushPublish ==
  /\ ppc = "publish"
  /\ writeIdx_' = NextIdx(currentWriteIdx, capacity_)
  /\ PushReturn(TRUE)
  /\ UNCHANGED <<fast, capacity_, cachedAt, data_, readIdx_, readIdxCached_, writeIdxCached_, cpc,
                 readIdx, val, popped, popRes, notRingVars>>

\* Pop(): readIdx = readIdx_.load()
PopLoadReadIdx ==
  /\ cpc = "idle"
  /\ readIdx' = readIdx_
  /\ cpc' = "check"
  /\ UNCHANGED <<fast, capacity_, cachedAt, data_, readIdx_, writeIdx_, readIdxCached_,
                 writeIdxCached_, ppc, currentWriteIdx, val, accepted, popped, pushRes,
                 popRes, notRingVars>>

\* RingBuffer::Pop: if (readIdx == writeIdx_.load()) return std::nullopt
PopCheckEmpty ==
  /\ cpc = "check"
  /\ ~fast
  /\ IF IsEmpty(readIdx, writeIdx_)
       THEN PopReturn(FALSE)
       ELSE cpc' = "read" /\ UNCHANGED <<readIdx, val, popped, popRes>>
  /\ UNCHANGED <<fast, capacity_, cachedAt, data_, readIdx_, writeIdx_, readIdxCached_,
                 writeIdxCached_, ppc, currentWriteIdx, accepted, pushRes, notRingVars>>

\* FastRingBuffer::Pop: if (readIdx == writeIdxCached_)
PopCheckCached ==
  /\ cpc = "check"
  /\ fast
  /\ cpc' = IF IsEmpty(readIdx, writeIdxCached_) THEN "reload" ELSE "read"
  /\ UNCHANGED <<fast, capacity_, cachedAt, data_, readIdx_, writeIdx_, readIdxCached_,
                 writeIdxCached_, ppc, currentWriteIdx, readIdx, val, accepted, popped,
                 pushRes, popRes, notRingVars>>

\* FastRingBuffer::Pop: writeIdxCached_ = writeIdx_.load(); return nullopt if still empty
PopReload ==
  /\ cpc = "reload"
  /\ writeIdxCached_' = writeIdx_
  /\ cachedAt' = [cachedAt EXCEPT !.wr = accepted]
  /\ IF IsEmpty(readIdx, writeIdx_)
       THEN PopReturn(FALSE)
       ELSE cpc' = "read" /\ UNCHANGED <<readIdx, val, popped, popRes>>
  /\ UNCHANGED <<fast, capacity_, data_, readIdx_, writeIdx_, readIdxCached_, ppc,
                 currentWriteIdx, accepted, pushRes, notRingVars>>

\* Pop: val = std::move(data_[readIdx])
PopReadSlot ==
  /\ cpc = "read"
  /\ val' = LoadSlot(data_, readIdx)
  /\ cpc' = "publish"
  /\ UNCHANGED <<fast, capacity_, cachedAt, data_, readIdx_, writeIdx_, readIdxCached_,
                 writeIdxCached_, ppc, currentWriteIdx, readIdx, accepted, popped,
                 pushRes, popRes, notRingVars>>

\* Pop: readIdx_.store(nextReadIdx); return val
PopPublish ==
  /\ cpc = "publish"
  /\ readIdx_' = NextIdx(readIdx, capacity_)
  /\ PopReturn(TRUE)
  /\ UNCHANGED <<fast, capacity_, cachedAt, data_, writeIdx_, readIdxCached_, writeIdxCached_,
                 ppc, currentWriteIdx, accepted, pushRes, notRingVars>>

\* one step of the producer thread
ProducerStep ==
  \/ PushLoadWriteIdx
  \/ PushCheckFull
  \/ PushCheckCached
  \/ PushReload
  \/ PushWriteSlot
  \/ PushPublish

\* one step of the consumer thread
ConsumerStep ==
  \/ PopLoadReadIdx
  \/ PopCheckEmpty
  \/ PopCheckCached
  \/ PopReload
  \/ PopReadSlot
  \/ PopPublish

\* one producer thread and one consumer thread, interleaved step by step
NextSPSC == ProducerStep \/ ConsumerStep

\* Push and Pop called one after the other: a step is taken only while the
\* other side is between calls
NextSeq ==
  \/ cpc = "idle" /\ ProducerStep
  \/ ppc = "idle" /\ ConsumerStep

\* ============================ RingBuffer and FastRingBuffer, whole calls
\* a RingBuffer as constructed
NewRingBuffer == [data |-> <<>>, rd |-> 0, wr |-> 0]

\* a FastRingBuffer as constructed
NewFastRingBuffer == [data |-> <<>>, rd |-> 0, wr |-> 0, rdc |-> 0, wrc |-> 0]

InitPair(capacity) ==
  /\ ecap = capacity
  /\ rb = NewRingBuffer
  /\ frb = NewFastRingBuffer
  /\ eres = [rb |-> <<"none">>, frb |-> <<"none">>]
  /\ ecalls = 0

\* RingBuffer::Push(v) run from call to return on the object b
RBPush(b, v, capacity) ==
  LET nextWriteIdx == NextIdx(b.wr, capacity) IN
    IF IsFull(nextWriteIdx, b.rd)
      THEN [ret |-> <<"push", FALSE>>, obj |-> b]
      ELSE [ret |-> <<"push", TRUE>>,
            obj |-> [b EXCEPT !.data = StoreSlot(b.data, b.wr, v), !.wr = nextWriteIdx]]

\* RingBuffer::Pop() run from call to return on the object b
RBPop(b, capacity) ==
  IF IsEmpty(b.rd, b.wr)
    THEN [ret |-> <<"pop", FALSE>>, obj |-> b]
    ELSE [ret |-> <<"pop", TRUE, LoadSlot(b.data, b.rd)>>,
          obj |-> [b EXCEPT !.rd = NextIdx(b.rd, capacity)]]

\* faulty variant: the cached index is not refreshed
FastReload_Keep(cached, real) == cached

\* FastRingBuffer: readIdxCached_ = readIdx_.load() / writeIdxCached_ = writeIdx_.load()
FastReload(cached, real) == real

\* FastRingBuffer::Push(v) run from call to return on the object f
FRBPush(f, v, capacity) ==
  LET nextWriteIdx == NextIdx(f.wr, capacity)
      stale == IsFull(nextWriteIdx, f.rdc)
      g == IF stale THEN [f EXCEPT !.rdc = FastReload(f.rdc, f.rd)] ELSE f
  IN
    IF stale /\ IsFull(nextWriteIdx, g.rdc)
      THEN [ret |-> <<"push", FALSE>>, obj |-> g]
      ELSE [ret |-> <<"push", TRUE>>,
            obj |-> [g EXCEPT !.data = StoreSlot(g.data, g.wr, v), !.wr = nextWriteIdx]]

\* FastRingBuffer::Pop() run from call to return on the object f
FRBPop(f, capacity) ==
  LET stale == IsEmpty(f.rd, f.wrc)
      g == IF stale THEN [f EXCEPT !.wrc = FastReload(f.wrc, f.wr)] ELSE f
  IN
    IF stale /\ IsEmpty(g.rd, g.wrc)
      THEN [ret |-> <<"pop", FALSE>>, obj |-> g]
      ELSE [ret |-> <<"pop", TRUE, LoadSlot(g.data, g.rd)>>,
            obj |-> [g EXCEPT !.rd = NextIdx(g.rd, capacity)]]

\* the same Push is applied to both objects; the value is the number of the call
PairPush ==
  /\ ecalls < MaxCalls
  /\ LET r == RBPush(rb, ecalls + 1, ecap)
         s == FRBPush(frb, ecalls + 1, ecap)
     IN /\ rb' = r.obj
        /\ frb' = s.obj
        /\ eres' = [rb |-> r.ret, frb |-> s.ret]
  /\ ecalls' = ecalls + 1
  /\ UNCHANGED <<ecap, notPairVars>>

\* the same Pop is applied to both objects
PairPop ==
  /\ ecalls < MaxCalls
  /\ LET r == RBPop(rb, ecap)
         s == FRBPop(frb, ecap)
     IN /\ rb' = r.obj
        /\ frb' = s.obj
        /\ eres' = [rb |-> r.ret, frb |-> s.ret]
  /\ ecalls' = ecalls + 1
  /\ UNCHANGED <<ecap, notPairVars>>

\* any sequence of Push and Pop calls made by one thread
NextPair == PairPush \/ PairPop

\* ========================================================== specifications
\* every lock as constructed, no thread inside any operation
Init == InitMutex /\ InitMCS /\ InitTicket /\ InitTAS /\ InitRing(FALSE, 2) /\ InitPair(2)

\* as Init, with one lock()/unlock() pair left per thread on the Mutex
InitOnce == InitMutexOnce /\ InitMCS /\ InitTicket /\ InitTAS /\ InitRing(FALSE, 2) /\ InitPair(2)

SpecMutex == Init /\ [][NextMutex]_vars

\* each thread calls lock() once, under fair scheduling of every thread; a
\* signal that interrupts the kernel wait is never guaranteed to arrive
SpecMutexFair ==
  /\ InitOnce
  /\ [][NextMutex]_vars
  /\ \A t \in Threads : WF_vars(MStep(t))

SpecMCS == Init /\ [][NextMCS]_vars

SpecTicket == Init /\ [][NextTicket]_vars

SpecTAS == Init /\ [][NextTAS]_vars

\* a RingBuffer or a FastRingBuffer of any capacity from 2 to MaxCapacity
InitRingAny ==
  /\ InitMutex /\ InitMCS /\ InitTicket /\ InitTAS /\ InitPair(2)
  /\ \E isFast \in BOOLEAN, capacity \in 2..MaxCapacity : InitRing(isFast, capacity)

SpecSPSC == InitRingAny /\ [][NextSPSC]_vars

SpecSeq == InitRingAny /\ [][NextSeq]_vars

\* no call on the TicketLock object has started yet
TicketUntouched ==
  /\ next_free_ticket_ = 0
  /\ \A t \in Threads : tpc[t] = "idle"

\* no call on the TASSpinLock object has started yet
TASUntouched ==
  /\ ~stry.called
  /\ \A t \in Threads : spc[t] = "idle" /\ sround[t] = 0

\* the threads share one lock object with lock(), try_lock() and unlock(): a
\* TicketLock or a TASSpinLock
NextTryLock ==
  \/ TASUntouched /\ NextTicket
  \/ TicketUntouched /\ NextTAS

SpecTryLock == Init /\ [][NextTryLock]_vars

\* the consumer thread of the transfer: it calls Pop again until it has
\* received MaxItems values
ConsumerUntilDone == Len(popped) < MaxItems /\ ConsumerStep

\* a producer that calls Push again until MaxItems values were accepted and a
\* consumer that calls Pop again until it has received them
NextTransfer == ProducerStep \/ ConsumerUntilDone

\* both threads keep being scheduled
SpecTransfer ==
  /\ InitRingAny
  /\ [][NextTransfer]_vars
  /\ WF_vars(ProducerStep)
  /\ WF_vars(ConsumerUntilDone)

\* every thread has one acquisition left to make on the TASSpinLock
InitTASOnce ==
  /\ locked_ = FALSE
  /\ spc = [t \in Threads |-> "idle"]
  /\ sround = [t \in Threads |-> MaxRounds - 1]
  /\ stry = [called |-> FALSE, ok |-> FALSE, held |-> FALSE, busy |-> FALSE,
             after |-> FALSE]
  /\ sover = 0

InitTASLast ==
  InitMutex /\ InitMCS /\ InitTicket /\ InitTASOnce /\ InitRing(FALSE, 2) /\ InitPair(2)

\* the compare-exchange of some lock() call succeeds
SAcquire == \E t \in Threads : SLockCAS(t) /\ spc'[t] = "cs"

\* every thread keeps being scheduled, so every holder eventually calls
\* unlock(), and the weak compare-exchange does not fail spuriously forever:
\* when again and again some lock() call could take the free lock, one does
SpecTASFair ==
  /\ InitTASLast
  /\ [][NextTAS]_vars
  /\ \A t \in Threads : WF_vars(SStep(t))
  /\ SF_vars(SAcquire)

\* every thread has one guarded section left to run on the QueueSpinLock
InitMCSOnce ==
  /\ tail_ = Null
  /\ next_ = [t \in Threads |-> Null]
  /\ is_owner_ = [t \in Threads |-> FALSE]
  /\ prev_tail = [t \in Threads |-> Null]
  /\ qpc = [t \in Threads |-> "idle"]
  /\ qround = [t \in Threads |-> MCSRounds - 1]
  /\ counter = 0
  /\ qreg = [t \in Threads |-> 0]
  /\ qenq = 0
  /\ qnum = [t \in Threads |-> 0]
  /\ qgrants = 0

InitMCSLast ==
  InitMutex /\ InitMCSOnce /\ InitTicket /\ InitTAS /\ InitRing(FALSE, 2) /\ InitPair(2)

\* every thread runs one guarded section and keeps being scheduled; the
\* guarded section is the two steps of ++counter
SpecMCSFair ==
  /\ InitMCSLast
  /\ [][NextMCS]_vars
  /\ \A t \in Threads : WF_vars(QStep(t))

\* a RingBuffer and a FastRingBuffer of the same capacity, from 2 to MaxCapacity
InitPairAny ==
  /\ InitMutex /\ InitMCS /\ InitTicket /\ InitTAS /\ InitRing(FALSE, 2)
  /\ \E capacity \in 2..MaxCapacity : InitPair(capacity)

SpecPair == InitPairAny /\ [][NextPair]_vars

\* ================================================================== claims
\* the threads that own the mutex: lock() has returned and unlock() has not
\* yet written the word
MHolders == {t \in Threads : mpc[t] \in {"cs", "u_store"}}

\* C1: Futex Mutex mutual exclusion. At most one thread is between the return
\* of lock() and the release performed by its unlock(), and while a thread
\* owns the mutex the word is not Unlocked, so no contender's compare-exchange
\* out of Unlocked can succeed before the holder has called unlock().
MutexMutualExclusion ==
  /\ Cardinality(MHolders) <= 1
  /\ MHolders # {} => lock_ # Unlocked

\* a holder is in its critical section while a woken contender is about to
\* retry its compare-exchange
MutexContendedWitness ==
  \E t, u \in Threads : mpc[t] = "cs" /\ mpc[u] = "retry" /\ mwoken[u]

\* C10: Futex Mutex wake-up liveness. When every thread calls lock() once,
\* under fair scheduling the run always reaches the state in which every
\* thread has returned from its lock() and finished its unlock(): nobody
\* stays blocked in the kernel wait and the system does not deadlock.
MutexWakeUpLiveness ==
  <>(\A t \in Threads : mpc[t] = "idle" /\ mround[t] = MaxRounds)

\* two threads blocked in the kernel wait behind a holder; its unlock() woke
\* them, one has returned from lock() and the other is about to block again
MutexWokenWitness ==
  \E t, u \in Threads :
    /\ mpc[t] = "cs" /\ mwoken[t]
    /\ mpc[u] = "wait" /\ mwoken[u]
    /\ lock_ = LockedHasWaiters

\* the Guards whose constructor has returned and whose destructor has not started
QInCritical == {t \in Threads : qpc[t] \in {"cs_load", "cs_store", "deq"}}

QAllDone == \A t \in Threads : qpc[t] = "idle" /\ qround[t] = MCSRounds

\* C2: MCS QueueSpinLock mutual exclusion. At most one thread is between the
\* return of its Guard constructor and the start of its Guard destructor, no
\* guarded increment of the shared counter is lost, and once all NumThreads
\* threads have done MCSRounds guarded increments the counter is exactly
\* NumThreads * MCSRounds.
MCSMutualExclusion ==
  /\ Cardinality(QInCritical) <= 1
  /\ counter = qgrants - Cardinality({t \in Threads : qpc[t] \in {"cs_load", "cs_store"}})
  /\ QAllDone => counter = NumThreads * MCSRounds

\* every thread has finished after at least one Guard had to wait for a hand-off
MCSAllDoneWitness ==
  /\ QAllDone
  /\ \E t \in Threads : prev_tail[t] # Null

\* C9: MCS QueueSpinLock FIFO fairness. Guard constructors return in exactly
\* the order of the exchanges on tail_: the Guard whose constructor returned
\* last is the one whose exchange was the qgrants-th, so a Guard that
\* exchanged earlier is never overtaken by one that exchanged later.
MCSFifo ==
  \A t \in Threads :
    qpc[t] \in {"cs_load", "cs_store", "deq"} => qnum[t] = qgrants

\* A and B both exchanged while a third Guard held the lock, A before B; A has
\* been granted and B still spins
MCSFifoWitness ==
  \E a, b \in Threads :
    /\ qpc[a] = "cs_load"
    /\ prev_tail[a] # Null
    /\ prev_tail[a] # b
    /\ qpc[b] = "spin"
    /\ prev_tail[b] = a
    /\ qnum[b] = qnum[a] + 1
    /\ qpc[prev_tail[a]] \in {"handoff", "idle"}
    /\ qgrants = 2

THolders == {t \in Threads : tpc[t] = "cs"}

\* C3: TicketLock mutual exclusion. Over every interleaving of lock(),
\* try_lock() and unlock() (unlock() by the holder only) at most one thread
\* holds the lock.
TicketMutualExclusion == Cardinality(THolders) <= 1

\* one thread holds the lock, a second spins in lock() and a third is between
\* the load and the compare-exchange of try_lock()
TicketContendedWitness ==
  \E t, u, v \in Threads :
    tpc[t] = "cs" /\ tpc[u] = "spin" /\ tpc[v] = "try_cas"

\* C8: TicketLock FIFO fairness. Threads enter the critical section in
\* strictly increasing ticket order with no ticket skipped: the holder's
\* ticket is the number of acquisitions before its own, so a thread that
\* drew its ticket earlier always returns from lock() earlier.
TicketFifo ==
  \A t \in Threads : tpc[t] = "cs" => my_ticket[t] = tentered - 1

\* A drew its ticket before B while a third thread held the lock; A now holds
\* the lock and B still spins
TicketFifoWitness ==
  \E a, b \in Threads :
    /\ tpc[a] = "cs"
    /\ tpc[b] = "spin"
    /\ my_ticket[a] = 1
    /\ my_ticket[b] = 2
    /\ tentered = 2

SHolders == {t \in Threads : spc[t] = "cs"}

\* C4: TASSpinLock mutual exclusion. Over every interleaving of lock(),
\* try_lock() and unlock() (unlock() by the holder only) at most one thread
\* holds the lock, and locked_ is true whenever some thread holds it.
TASMutualExclusion ==
  /\ Cardinality(SHolders) <= 1
  /\ SHolders # {} => locked_

\* one thread holds the lock while a second spins on the flag and a third,
\* which saw the flag clear earlier, is about to retry its compare-exchange
TASContendedWitness ==
  \E t, u, v \in Threads :
    spc[t] = "cs" /\ spc[u] = "spin_read" /\ spc[v] = "lock_cas"

\* C5: SPSC no loss, no duplication, no reordering. With one producer and one
\* consumer interleaved at every index load, slot access and index store, the
\* values returned by Pop are at every moment a prefix of the values accepted
\* by Push (the k-th accepted value is k), for RingBuffer and FastRingBuffer
\* and every capacity from 2 to MaxCapacity.
SpscPoppedIsPrefix ==
  /\ Len(popped) <= accepted
  /\ \A i \in 1..Len(popped) : popped[i] = i

\* a FastRingBuffer whose indices have wrapped, with the producer about to
\* write a slot while the consumer is about to read one
SpscWitness ==
  /\ fast
  /\ Len(popped) >= capacity_
  /\ ppc = "write"
  /\ cpc = "read"

\* C6: usable capacity is capacity_ - 1. In sequential use a Push returns
\* true exactly when fewer than capacity_ - 1 pushed values are still
\* unpopped, and the number of unpopped values never exceeds capacity_ - 1.
RingCapacity ==
  /\ Unpopped <= capacity_ - 1
  /\ pushRes.called => (pushRes.ok <=> pushRes.held < capacity_ - 1)

\* starting from empty, capacity_ - 1 pushes were accepted and the next Push
\* returned false
RingCapacityWitness ==
  /\ pushRes.called
  /\ ~pushRes.ok
  /\ popped = <<>>
  /\ accepted = capacity_ - 1
  /\ capacity_ = MaxCapacity

\* C7: FIFO order across wrap-around. In sequential use every successful Pop
\* returns the oldest value pushed and not yet popped, and a Pop returns empty
\* exactly when every pushed value has been popped.
RingSeqFifo ==
  /\ \A i \in 1..Len(popped) : popped[i] = i
  /\ popRes.called => (popRes.some <=> popRes.held > 0)

\* the indices have wrapped past capacity_, everything pushed was popped and
\* the next Pop returned empty
RingSeqFifoWitness ==
  /\ Len(popped) > capacity_
  /\ Len(popped) = accepted
  /\ popRes.called
  /\ ~popRes.some

\* thread t is inside TicketLock::try_lock() with a loaded owner ticket that
\* next_free_ticket_ has already passed
TTryDoomed(t) == tpc[t] = "try_cas" /\ my_ticket[t] # next_free_ticket_

\* C11: try_lock() on a held lock fails without side effect. TicketLock: a
\* try_lock() that loads owner_ticket_ while another thread holds the lock can
\* no longer succeed, whatever happens before its compare-exchange, and a
\* compare-exchange made while another thread holds the lock or after such a
\* load returns false and leaves next_free_ticket_ and owner_ticket_ as they
\* were. TASSpinLock: a try_lock() made while another thread holds the lock
\* returns false and leaves locked_ true.
TryLockOnHeldFails ==
  [][/\ \A t \in Threads :
          LET held == \E u \in Threads \ {t} : tpc[u] = "cs" IN
            /\ (tpc[t] = "idle" /\ tpc'[t] = "try_cas" /\ held)
                 => /\ TTryDoomed(t)'
                    /\ next_free_ticket_' = next_free_ticket_
                    /\ owner_ticket_' = owner_ticket_
            /\ (TTryDoomed(t) /\ tpc'[t] = "try_cas") => TTryDoomed(t)'
            /\ (tpc[t] = "try_cas" /\ tpc'[t] # "try_cas" /\ (held \/ TTryDoomed(t)))
                 => /\ tpc'[t] = "idle"
                    /\ next_free_ticket_' = next_free_ticket_
                    /\ owner_ticket_' = owner_ticket_
                    /\ tentered' = tentered
     /\ (stry'.called /\ stry'.held) => (~stry'.ok /\ stry'.after)
    ]_vars

\* TicketLock: a try_lock() has loaded owner ticket 1 while the thread that
\* drew ticket 1 holds the lock and next_free_ticket_ is already 2; TASSpinLock: the last
\* try_lock() found another thread holding the lock, which still holds it
TryLockOnHeldWitness ==
  \/ \E t, u \in Threads :
       /\ t # u
       /\ tpc[t] = "try_cas" /\ tround[t] = 0 /\ my_ticket[t] = 1
       /\ tpc[u] = "cs" /\ my_ticket[u] = 1 /\ owner_ticket_ = 1
       /\ next_free_ticket_ = 2
  \/ /\ stry.called /\ stry.held /\ ~stry.ok
     /\ \E u \in Threads : spc[u] = "cs" /\ sround[u] = 0

\* the threads that have drawn a ticket and not yet released it
TQueued == {t \in Threads : tpc[t] \in {"spin", "cs"}}

\* C12: TicketLock::try_lock() succeeds only if no one else is queued. A
\* try_lock() returns true only when, at the instant of its compare-exchange,
\* next_free_ticket_ equals owner_ticket_ and no thread holds a ticket; it
\* then draws exactly that ticket, and the unlock() of any holder, whether it
\* came in through lock() or try_lock(), advances owner_ticket_ from the
\* holder's ticket to the next one.
TryLockOnlyWhenFree ==
  [][\A t \in Threads :
       /\ (tpc[t] = "try_cas" /\ tpc'[t] = "cs")
            => /\ next_free_ticket_ = owner_ticket_
               /\ TQueued = {}
               /\ my_ticket[t] = owner_ticket_
               /\ next_free_ticket_' = my_ticket[t] + 1
               /\ owner_ticket_' = owner_ticket_
       /\ (tpc[t] = "cs" /\ tpc'[t] = "idle")
            => /\ my_ticket[t] = owner_ticket_
               /\ owner_ticket_' = my_ticket[t] + 1
               /\ next_free_ticket_' = next_free_ticket_
    ]_vars

\* two try_lock() calls loaded the same owner ticket: one has succeeded and
\* holds the lock, a lock() queued behind it, and the other try_lock() has
\* not yet made its compare-exchange
TryLockOnlyWhenFreeWitness ==
  \E t, u, v \in Threads :
    /\ ttried
    /\ tpc[t] = "cs" /\ my_ticket[t] = 1 /\ owner_ticket_ = 1
    /\ tpc[u] = "try_cas" /\ my_ticket[u] = 1
    /\ tpc[v] = "spin" /\ my_ticket[v] = 2

\* C13: TASSpinLock::try_lock() on an unheld lock succeeds. Every try_lock()
\* made while no thread holds the lock and no other thread is inside lock()
\* returns true and leaves locked_ true with the caller as holder.
TryLockOnUnheldSucceeds ==
  (stry.called /\ ~stry.held /\ ~stry.busy) => (stry.ok /\ stry.after)

\* the order of the positions inside one call of Push or Pop
CallRank(pc) ==
  CASE pc = "idle" -> 0
    [] pc = "check" -> 1
    [] pc = "reload" -> 2
    [] pc \in {"write", "read"} -> 3
    [] pc = "publish" -> 4

\* the read index the full test of Push compares with at this step
ObservedReadIdx == IF fast /\ ppc = "check" THEN readIdxCached_ ELSE readIdx_

\* the write index the empty test of Pop compares with at this step
ObservedWriteIdx == IF fast /\ cpc = "check" THEN writeIdxCached_ ELSE writeIdx_

\* C14: ring buffer full/empty outcomes are non-blocking and side-effect
\* free. The step of Push that decides between returning false and writing
\* the slot returns false exactly when (write + 1) mod capacity equals the
\* read index it observes; the step of Pop that decides returns empty exactly
\* when its read index equals the write index it observes. Every step of a
\* call moves forward through the call or returns, so a call ends after a
\* bounded number of its own steps, and the steps of a failing Push or an
\* empty Pop leave readIdx_, writeIdx_ and data_ unchanged.
RingFailureNoEffect ==
  [][/\ (ppc \in {"check", "reload"} /\ ppc' \in {"idle", "write"})
          => /\ (ppc' = "idle") <=> (NextIdx(currentWriteIdx, capacity_) = ObservedReadIdx)
             /\ (ppc' = "idle") => (pushRes'.called /\ ~pushRes'.ok /\ accepted' = accepted)
     /\ (cpc \in {"check", "reload"} /\ cpc' \in {"idle", "read"})
          => /\ (cpc' = "idle") <=> (readIdx = ObservedWriteIdx)
             /\ (cpc' = "idle") => (popRes'.called /\ ~popRes'.some /\ popped' = popped)
     /\ (ppc' # ppc) => (ppc' = "idle" \/ CallRank(ppc') > CallRank(ppc))
     /\ (cpc' # cpc) => (cpc' = "idle" \/ CallRank(cpc') > CallRank(cpc))
     /\ ((ppc' # ppc /\ ppc \in {"idle", "check", "reload"})
          \/ (cpc' # cpc /\ cpc \in {"idle", "check", "reload"}))
          => (readIdx_' = readIdx_ /\ writeIdx_' = writeIdx_ /\ data_' = data_)
    ]_vars

\* with producer and consumer running concurrently on a RingBuffer of the
\* largest capacity, the last Push returned false and the last Pop, after the
\* indices wrapped, returned empty
RingFailureWitness ==
  /\ ~fast
  /\ capacity_ = MaxCapacity
  /\ pushRes.called /\ ~pushRes.ok
  /\ popRes.called /\ ~popRes.some
  /\ accepted > capacity_

\* every value was accepted and consumed and both threads are between calls
TransferDone ==
  /\ accepted = MaxItems
  /\ Len(popped) = MaxItems
  /\ ppc = "idle"
  /\ cpc = "idle"

\* C15: SPSC transfer completes. With a producer that retries Push until
\* MaxItems values were accepted and a consumer that retries Pop until it has
\* received MaxItems values, under fair scheduling of both threads the run
\* always reaches, and then stays in, the state in which all values have
\* been consumed and both threads have finished, for RingBuffer and
\* FastRingBuffer and every capacity from 2 to MaxCapacity.
SpscTransferCompletes == <>[]TransferDone

\* a FastRingBuffer of capacity 2, which holds one value at a time, has
\* carried all MaxItems values
SpscTransferWitness ==
  /\ TransferDone
  /\ fast
  /\ capacity_ = 2
  /\ popped[MaxItems] = MaxItems

\* C16 as stated: TicketLock counter invariant. In every reachable state
\* owner_ticket_ <= next_free_ticket_, and a thread holds the lock (its lock()
\* or successful try_lock() has returned and its unlock() has not run) if and
\* only if the ticket it drew and has not released equals owner_ticket_.
TicketHolderIffOwnerTicket ==
  /\ owner_ticket_ <= next_free_ticket_
  /\ \A t \in Threads :
       (t \in THolders) <=> (t \in TQueued /\ my_ticket[t] = owner_ticket_)

\* C16, amended: owner_ticket_ <= next_free_ticket_; the tickets drawn and not
\* released are distinct and are exactly owner_ticket_ .. next_free_ticket_ - 1;
\* a thread that holds the lock has the ticket owner_ticket_; and a thread
\* whose ticket equals owner_ticket_ either holds the lock or is still in the
\* spin loop of lock() while no thread holds the lock.
TicketCounterInvariant ==
  /\ owner_ticket_ <= next_free_ticket_
  /\ {my_ticket[t] : t \in TQueued} = owner_ticket_ .. (next_free_ticket_ - 1)
  /\ Cardinality(TQueued) = next_free_ticket_ - owner_ticket_
  /\ \A t \in THolders : my_ticket[t] = owner_ticket_
  /\ \A t \in TQueued :
       my_ticket[t] = owner_ticket_ => (tpc[t] = "cs" \/ THolders = {})

\* the holder of ticket 0 has released the lock; the thread with ticket 1 has
\* not yet read owner_ticket_ in its spin loop and a third thread queues
\* behind it
TicketCounterWitness ==
  \E t, u \in Threads :
    /\ owner_ticket_ = 1
    /\ tpc[t] = "spin" /\ my_ticket[t] = 1
    /\ tpc[u] = "spin" /\ my_ticket[u] = 2
    /\ THolders = {}

\* C17: Futex Mutex release protocol. The first step of unlock() by the
\* holder, when the word is LockedNoWaiters, writes Unlocked and returns
\* without a wake (no other thread's position changes); otherwise the word is
\* LockedHasWaiters, unlock() stores Unlocked and then issues the wake-all,
\* which moves every thread blocked in the kernel wait out of it. The word is
\* Unlocked right after unlock()'s write in both cases.
MutexReleaseProtocol ==
  [][\A t \in Threads :
       /\ (mpc[t] = "cs" /\ mpc'[t] # "cs")
            => IF lock_ = LockedNoWaiters
                 THEN /\ lock_' = Unlocked
                      /\ mpc' = [mpc EXCEPT ![t] = "idle"]
                 ELSE /\ lock_ = LockedHasWaiters
                      /\ lock_' = LockedHasWaiters
                      /\ mpc' = [mpc EXCEPT ![t] = "u_store"]
       /\ (mpc[t] = "u_store" /\ mpc'[t] # "u_store")
            => /\ lock_ = LockedHasWaiters
               /\ lock_' = Unlocked
               /\ mpc' = [mpc EXCEPT ![t] = "u_wake"]
       /\ (mpc[t] = "u_wake" /\ mpc'[t] # "u_wake")
            => /\ mpc'[t] = "idle"
               /\ lock_' = lock_
               /\ \A u \in Threads \ {t} :
                    mpc'[u] = IF mpc[u] = "sleeping" THEN "retry" ELSE mpc[u]
    ]_vars

\* unlock() has stored Unlocked and its wake-all has just woken two threads
\* that were blocked in the kernel wait
MutexReleaseWitness ==
  \E t, u, v \in Threads :
    /\ u # v
    /\ mpc[t] = "idle" /\ mround[t] = 1
    /\ mpc[u] = "retry" /\ mwoken[u]
    /\ mpc[v] = "retry" /\ mwoken[v]
    /\ lock_ = Unlocked

MCSReleaseHandOff ==
  [][\A t \in Threads :
       /\ (qpc[t] = "deq" /\ qpc'[t] # "deq")
            => /\ is_owner_' = is_owner_
               /\ IF tail_ = t
                    THEN tail_' = Null /\ qpc'[t] = "idle"
                    ELSE tail_' = tail_ /\ qpc'[t] = "spin_next"
       /\ (qpc[t] = "spin_next" /\ qpc'[t] # "spin_next")
            => /\ next_[t] # Null
               /\ qpc'[t] = "handoff"
               /\ is_owner_' = is_owner_
               /\ tail_' = tail_
       /\ (qpc'[t] = "handoff") => (next_'[t] # Null)
       /\ (qpc[t] = "handoff" /\ qpc'[t] # "handoff")
            => /\ next_[t] # Null
               /\ prev_tail[next_[t]] = t
               /\ is_owner_' = [is_owner_ EXCEPT ![next_[t]] = TRUE]
               /\ tail_' = tail_
               /\ tail_ # t
               /\ qpc'[t] = "idle"
    ]_vars

\* a releaser has handed the lock to its successor, which has not yet seen
\* its flag, while a third Guard is queued behind the successor without the flag
MCSHandOffWitness ==
  \E t, u, v \in Threads :
    /\ qpc[t] = "idle" /\ qround[t] = 1
    /\ next_[t] = u
    /\ qpc[u] = "spin" /\ is_owner_[u]
    /\ prev_tail[v] = u /\ qpc[v] = "spin" /\ ~is_owner_[v]
    /\ tail_ = v

\* C20: MCS acquire protocol. The exchange on tail_ sends a Guard to its own
\* store of is_owner_ exactly when it returned null, and such a Guard has its
\* flag set from that store on, so its constructor returns by its own steps
\* alone. A Guard whose exchange returned a predecessor writes itself into
\* that predecessor's next_ and writes no flag. The flag of a Guard turns
\* true only by the Guard's own store when its exchange returned null, or by
\* the hand-off of the predecessor its exchange returned, whose next_ points
\* to it: never by any other thread.
MCSAcquireProtocol ==
  [][\A t \in Threads :
       /\ (qpc[t] = "idle" /\ qpc'[t] # "idle")
            => /\ prev_tail'[t] = tail_
               /\ tail_' = t
               /\ ~is_owner_'[t]
               /\ qpc'[t] = IF tail_ = Null THEN "set_owner" ELSE "link"
       /\ (qpc[t] = "set_owner" /\ qpc'[t] # "set_owner")
            => /\ prev_tail[t] = Null
               /\ is_owner_' = [is_owner_ EXCEPT ![t] = TRUE]
               /\ qpc'[t] = "spin"
       /\ (qpc'[t] = "spin" /\ prev_tail'[t] = Null) => is_owner_'[t]
       /\ (qpc[t] = "link" /\ qpc'[t] # "link")
            => /\ prev_tail[t] # Null
               /\ next_' = [next_ EXCEPT ![prev_tail[t]] = t]
               /\ is_owner_' = is_owner_
               /\ qpc'[t] = "spin"
       /\ (~is_owner_[t] /\ is_owner_'[t])
            => \/ /\ prev_tail[t] = Null
                  /\ qpc[t] = "set_owner" /\ qpc'[t] = "spin"
               \/ /\ prev_tail[t] # Null
                  /\ qpc[t] = "spin"
                  /\ next_[prev_tail[t]] = t
                  /\ qpc[prev_tail[t]] = "handoff"
                  /\ qpc'[prev_tail[t]] = "idle"
    ]_vars

\* the first Guard took the free lock by its own store and has released it to
\* the Guard queued behind it, whose constructor has returned; a third Guard
\* has exchanged tail_ but not yet written itself into its predecessor's next_
MCSAcquireWitness ==
  \E t, u, v \in Threads :
    /\ prev_tail[t] = Null /\ qpc[t] = "idle" /\ qround[t] = 1
    /\ prev_tail[u] = t /\ qpc[u] = "cs_load" /\ is_owner_[u]
    /\ prev_tail[v] = u /\ qpc[v] = "link" /\ ~is_owner_[v]
    /\ next_[u] = Null

\* a releaser that waits on a null next_ has a successor that has exchanged
\* tail_ and has its single link store left to do; once next_ is set the wait
\* can end whatever the other threads do
MCSReleaserWaitsForLink ==
  \A t \in Threads :
    (qpc[t] = "spin_next" /\ next_[t] = Null)
      => \E u \in Threads \ {t} : prev_tail[u] = t /\ qpc[u] = "link"

\* C21: MCS progress. Under fair scheduling of all threads, with the guarded
\* section finite, every Guard constructor and every Guard destructor
\* returns: the run reaches the state in which every thread has finished.
\* A releaser waits on its next_ link only while its successor has the link
\* store still to do, so no interleaving of the two-phase enqueue with a
\* release blocks for ever.
MCSProgress == []MCSReleaserWaitsForLink /\ <>QAllDone

\* a releaser found tail_ moved on and waits for its next_ link while the
\* successor, behind which a third Guard already queued, has not yet stored it
MCSProgressWitness ==
  \E t, u, v \in Threads :
    /\ qpc[t] = "spin_next" /\ next_[t] = Null
    /\ prev_tail[u] = t /\ qpc[u] = "link"
    /\ prev_tail[v] = u /\ tail_ = v

\* C22: Futex Mutex acquisition transitions. lock() returns only by a
\* compare-exchange that found the word Unlocked; on the fast path it leaves
\* the word LockedNoWaiters, on the slow path LockedHasWaiters. While a thread
\* holds the mutex the word never moves away from LockedHasWaiters, and an
\* unlock() that finds LockedHasWaiters goes on to the store and the wake-all,
\* so the unlock() after a slow-path acquisition always wakes. A slow-path
\* compare-exchange that does not find Unlocked changes nothing and sends the
\* thread round the wait loop again.
MutexAcquireTransitions ==
  [][\A t \in Threads :
       /\ (mpc[t] # "cs" /\ mpc'[t] = "cs")
            => /\ lock_ = Unlocked
               /\ mpc[t] \in {"idle", "retry"}
               /\ lock_' = IF mpc[t] = "idle" THEN LockedNoWaiters ELSE LockedHasWaiters
       /\ (mpc[t] = "cs" /\ lock_ = LockedHasWaiters)
            => /\ lock_' = LockedHasWaiters
               /\ mpc'[t] \in {"cs", "u_store"}
       /\ (mpc[t] = "u_store") => (mpc'[t] \in {"u_store", "u_wake"})
       /\ (mpc[t] = "retry" /\ mpc'[t] # "retry" /\ lock_ # Unlocked)
            => /\ mpc'[t] = "slow_cas"
               /\ lock_' = lock_
    ]_vars

\* of two threads woken by the same wake-all one has taken the mutex through
\* the slow path, leaving LockedHasWaiters, and the compare-exchange of the
\* other has failed
MutexAcquireWitness ==
  \E t, u \in Threads :
    /\ mpc[t] = "cs" /\ mwoken[t]
    /\ mpc[u] = "slow_cas" /\ mwoken[u]
    /\ lock_ = LockedHasWaiters

\* C23: Futex Mutex conditional blocking. A contending thread first does the
\* compare-exchange LockedNoWaiters -> LockedHasWaiters, which changes the
\* word only from LockedNoWaiters, and then enters the kernel wait; the wait
\* blocks it exactly when the word is LockedHasWaiters at that instant and
\* returns at once when the word is Unlocked or LockedNoWaiters. No thread
\* goes to sleep in any other way.
MutexConditionalBlocking ==
  [][\A t \in Threads :
       /\ (mpc[t] = "slow_cas" /\ mpc'[t] # "slow_cas")
            => /\ mpc'[t] = "wait"
               /\ lock_' = IF lock_ = LockedNoWaiters THEN LockedHasWaiters ELSE lock_
       /\ (mpc[t] = "wait" /\ mpc'[t] # "wait")
            => /\ mpc'[t] = IF lock_ = LockedHasWaiters THEN "sleeping" ELSE "retry"
               /\ lock_' = lock_
       /\ (mpc[t] # "sleeping" /\ mpc'[t] = "sleeping")
            => /\ mpc[t] = "wait"
               /\ lock_ = LockedHasWaiters
    ]_vars

\* a thread that announced itself enters the kernel wait when the holder it
\* contended with has stored Unlocked and another thread has since taken the
\* fast path: the word is LockedNoWaiters and the wait will return at once
MutexNoBlockWitness ==
  \E t, u, v \in Threads :
    /\ mpc[t] = "wait"
    /\ lock_ = LockedNoWaiters
    /\ mpc[u] = "cs"
    /\ mpc[v] = "u_wake"

\* the threads blocked in the kernel wait
MSleepers == {t \in Threads : mpc[t] = "sleeping"}

\* the threads inside unlock() that have stored Unlocked and not yet issued
\* their wake-all
MPendingWake == {t \in Threads : mpc[t] = "u_wake"}

\* C24: Futex Mutex no-lost-wake-up invariant. Whenever a thread is blocked
\* in the kernel wait, either the word is LockedHasWaiters and some thread
\* holds the mutex, or a thread inside unlock() has stored Unlocked and has
\* not yet issued its wake-all.
MutexNoLostWakeUp ==
  MSleepers # {} =>
    \/ lock_ = LockedHasWaiters /\ MHolders # {}
    \/ MPendingWake # {}

\* a thread is blocked while the word is LockedNoWaiters: the holder it
\* waited for has stored Unlocked, a third thread took the fast path, and the
\* wake-all is still to come
MutexPendingWakeWitness ==
  \E t, u, v \in Threads :
    /\ mpc[t] = "sleeping"
    /\ lock_ = LockedNoWaiters
    /\ mpc[u] = "cs"
    /\ mpc[v] = "u_wake"

\* the real indices count the published pushes and pops modulo capacity_, and
\* each cached index is the value the real index had when cachedAt pushes or
\* pops were published, which is not more than are published now
CachedIndicesAreOld ==
  /\ readIdx_ = Len(popped) % capacity_
  /\ writeIdx_ = accepted % capacity_
  /\ cachedAt.rd <= Len(popped)
  /\ cachedAt.wr <= accepted
  /\ fast => /\ readIdxCached_ = cachedAt.rd % capacity_
             /\ writeIdxCached_ = cachedAt.wr % capacity_

\* a Push that got past its full test writes a slot outside the unpopped
\* values, and a Pop that got past its empty test reads a slot that was
\* written and published
AcceptedCallsAreSafe ==
  /\ ppc \in {"write", "publish"}
       => /\ currentWriteIdx = writeIdx_
          /\ Unpopped < capacity_ - 1
  /\ cpc \in {"read", "publish"}
       => /\ readIdx = readIdx_
          /\ Unpopped > 0
          /\ readIdx < Len(data_)

\* C25: FastRingBuffer cached indices are safe. The cached read index and the
\* cached write index are always values the real index held at or before the
\* current moment; a Push accepted on the cached read index never writes a
\* slot whose value is still unpopped and a Pop accepted on the cached write
\* index never reads a slot that is not written and published; and Push
\* returns false, Pop empty, only from the step that reloaded the real index
\* and found the buffer still full, respectively empty.
FastCachedIndicesSafe ==
  [][fast =>
       /\ CachedIndicesAreOld'
       /\ AcceptedCallsAreSafe'
       /\ (ppc # "idle" /\ ppc' = "idle" /\ accepted' = accepted)
            => /\ ppc = "reload"
               /\ readIdxCached_' = readIdx_
               /\ NextIdx(currentWriteIdx, capacity_) = readIdx_
       /\ (cpc # "idle" /\ cpc' = "idle" /\ popped' = popped)
            => /\ cpc = "reload"
               /\ writeIdxCached_' = writeIdx_
               /\ readIdx = writeIdx_
    ]_vars

\* after the indices have wrapped, the producer is about to write a slot
\* although the consumer has published pops since the read index was cached,
\* while the consumer is about to read a slot
FastStaleCacheWitness ==
  /\ fast
  /\ ppc = "write" /\ cachedAt.rd < Len(popped) /\ readIdxCached_ # readIdx_
  /\ cpc = "read"
  /\ accepted > capacity_

\* C26: FastRingBuffer and RingBuffer are observationally equivalent. After
\* every sequence of Push and Pop calls made by one thread on a RingBuffer and
\* a FastRingBuffer of the same capacity, the last call returned the same
\* result on both and both hold the same read index, write index and stored
\* values.
PairEquivalent ==
  /\ eres.rb = eres.frb
  /\ rb.rd = frb.rd
  /\ rb.wr = frb.wr
  /\ rb.data = frb.data

\* after the indices wrapped both objects refused a Push, the FastRingBuffer
\* after refreshing a cached read index that had fallen behind, while its
\* cached write index is still behind
PairWitness ==
  /\ eres.rb = <<"push", FALSE>>
  /\ rb.wr < rb.rd
  /\ ecap = MaxCapacity
  /\ frb.wrc # frb.wr
  /\ Len(rb.data) = ecap

\* the Guards that performed the exchange on tail_ and whose Dequeue has not returned
QEnqueued == {t \in Threads : qpc[t] # "idle"}

\* C27: MCS queue shape. tail_ is null exactly when no Guard is enqueued and
\* not yet released; otherwise tail_ is an enqueued Guard, the one that most
\* recently performed the exchange on tail_. Among the Guards enqueued and not
\* yet released at most one has is_owner_ true. Once every Guard has been
\* released tail_ is null again.
MCSQueueShape ==
  /\ (tail_ = Null) <=> (QEnqueued = {})
  /\ tail_ # Null => tail_ \in QEnqueued /\ qnum[tail_] = qenq
  /\ Cardinality({t \in QEnqueued : is_owner_[t]}) <= 1
  /\ QAllDone => tail_ = Null

\* every thread has a Guard in the queue, the oldest one is inside Dequeue after
\* its compare-exchange failed and still has is_owner_ true, and tail_ is
\* the Guard of the last exchange
MCSQueueShapeWitness ==
  /\ QEnqueued = Threads
  /\ \E t \in Threads : qpc[t] = "handoff" /\ is_owner_[t] /\ tail_ # t /\ next_[t] # tail_
  /\ qnum[tail_] = qenq

\* C28: lazy slot construction stays aligned with the indices. Whenever Push
\* is about to write its slot the write index is at most the number of slots
\* constructed so far; a step that constructs a slot constructs exactly one,
\* at slot number write index, holding the pushed value; the number of
\* constructed slots never exceeds capacity_; and whenever Pop is about to read
\* its slot the read index is below the number of constructed slots.
LazyConstructionAligned ==
  [][/\ ppc' = "write" => currentWriteIdx' <= Len(data_')
     /\ Len(data_') # Len(data_) =>
          /\ ppc = "write"
          /\ currentWriteIdx = Len(data_)
          /\ Len(data_') = Len(data_) + 1
          /\ data_'[currentWriteIdx + 1] = accepted + 1
     /\ Len(data_') <= capacity_'
     /\ cpc' = "read" => readIdx' < Len(data_')]_vars

\* the producer has just constructed the last slot of a FastRingBuffer of the
\* largest capacity, at slot number write index, while the consumer is about
\* to read a constructed slot
LazyConstructionWitness ==
  /\ fast
  /\ capacity_ = MaxCapacity
  /\ ppc = "publish"
  /\ accepted = capacity_ - 1
  /\ currentWriteIdx = capacity_ - 1
  /\ Len(data_) = capacity_
  /\ data_[capacity_] = accepted + 1
  /\ cpc = "read"
  /\ readIdx < Len(data_)

====
